---- MODULE Spec2Model ----
(***************************************************************************)
(* seezee: a random-access compressed container.                           *)
(*                                                                         *)
(* Compressor::compress frames the input, compresses every frame on its    *)
(* own and writes header, offset table and compressed blob into one byte   *)
(* buffer.  Decompressor::new parses the header and the table of such a    *)
(* buffer; Decompressor::get_into decompresses the frames a byte range     *)
(* touches.                                                                *)
(*                                                                         *)
(* Scaling.  A byte of the model holds ByteMod = 2 values, so a u32 (four  *)
(* bytes, WordSize) holds U32Mod = 2^4 values and u32::MAX is 15.  usize   *)
(* is 64 bit in the code and is modelled by unbounded naturals.  The words *)
(* are written in little-endian order (to_ne_bytes on a little-endian      *)
(* host).                                                                  *)
(***************************************************************************)
EXTENDS Integers, Sequences, FiniteSets, TLC

\* ---------------------------------------------------------------- bounds
MaxLen == 5
MaxFrameSize == 2
MaxTail == 2

\* ------------------------------------------------------ program constants
ByteMod == 2
WordSize == 4
\* 32 KiB in the code; scaled like the word
DEFAULT_FRAME_SIZE == 2
HeaderWords == 2
BlockHeaderSize == 4

RECURSIVE Pow(_, _)
Pow(b, e) == IF e = 0 THEN 1 ELSE b * Pow(b, e - 1)

U32Mod == Pow(ByteMod, WordSize)
U32_MAX == U32Mod - 1
Byte == 0 .. (ByteMod - 1)

Min(a, b) == IF a < b THEN a ELSE b
Max(a, b) == IF a > b THEN a ELSE b

\* usize::div_ceil / u32::div_ceil: quotient, plus one when a remainder is left
DivCeil(a, b) == IF a % b > 0 THEN (a \div b) + 1 ELSE a \div b

Zeros(n) == [k \in 1 .. n |-> 0]
Repeat(b, n) == [k \in 1 .. n |-> b]

\* `x as u32`
AsU32(n) == n % U32Mod

\* u32::to_ne_bytes / the Pod view of a u32 (little-endian host)
ToNeBytes(v) == [k \in 1 .. WordSize |-> (v \div Pow(ByteMod, k - 1)) % ByteMod]

RECURSIVE FromNeBytes(_)
FromNeBytes(bs) == IF bs = <<>> THEN 0 ELSE bs[1] + ByteMod * FromNeBytes(Tail(bs))

\* set_u32(buf, i, val): overwrite word i (0-based) of buf
set_u32(b, w, val) ==
    [k \in 1 .. Len(b) |->
        IF k > w * WordSize /\ k <= (w + 1) * WordSize
        THEN ToNeBytes(val)[k - w * WordSize]
        ELSE b[k]]

\* word w (0-based) of a byte buffer
get_u32(b, w) == FromNeBytes(SubSeq(b, w * WordSize + 1, (w + 1) * WordSize))

\* --------------------------------------------------------------- the codec
(***************************************************************************)
(* The block compressor is external (zstd, configured without magic bytes, *)
(* checksum, content size and dictionary id).  The model is a codec with   *)
(* the same contract: a frame is a block header of BlockHeaderSize bytes   *)
(* <<type, s2, s1, s0>> (type 0 = raw, 1 = run-length; s = regenerated     *)
(* size, big-endian) and a body; raw bodies hold the literal bytes, a      *)
(* run-length body is the one byte to repeat.  Decompression fails on a    *)
(* malformed frame and when the output does not fit the capacity of the    *)
(* destination.                                                            *)
(***************************************************************************)
SizeField(n) == << (n \div (ByteMod * ByteMod)) % ByteMod, (n \div ByteMod) % ByteMod, n % ByteMod >>
SizeOf(f) == (f[2] * ByteMod + f[3]) * ByteMod + f[4]

IsRun(src) == Len(src) >= 1 /\ \A k \in 1 .. Len(src) : src[k] = src[1]

\* zstd::zstd_safe::compress_bound
compress_bound(n) == n + BlockHeaderSize

\* zstd::bulk::Compressor::compress_to_buffer: the bytes appended
CodecCompress(src) ==
    IF IsRun(src)
    THEN <<1>> \o SizeField(Len(src)) \o <<src[1]>>
    ELSE <<0>> \o SizeField(Len(src)) \o src

\* zstd::bulk::Decompressor::decompress_to_buffer into a destination with
\* `capacity` spare bytes: [ok, out]
CodecDecompress(src, capacity) ==
    LET bad == [ok |-> FALSE, out |-> <<>>]
    IN  IF Len(src) < BlockHeaderSize THEN bad
        ELSE LET n == SizeOf(src)
                 body == SubSeq(src, BlockHeaderSize + 1, Len(src))
             IN  IF src[1] = 0
                 THEN IF Len(body) # n \/ n > capacity THEN bad
                      ELSE [ok |-> TRUE, out |-> body]
                 ELSE IF src[1] = 1
                 THEN IF Len(body) # 1 \/ n > capacity THEN bad
                      ELSE [ok |-> TRUE, out |-> Repeat(body[1], n)]
                 ELSE bad

\* Vec::reserve(additional) on a vector of length len and capacity cap: the
\* new capacity (amortized doubling; nothing when the spare room suffices).
\* The standard library also rounds a first allocation up to 8 bytes; with the
\* sizes of the model scaled down that floor is left out.
Reserve(len, cap, additional) ==
    IF cap - len >= additional THEN cap ELSE Max(2 * cap, len + additional)

VARIABLES
    pc,             \* "builder", "compressing", "compressed", "open" (a fresh
                    \* Decompressor), "used" (after one get_into), "done" (after
                    \* two; the instance is dropped), "none" (new returned None),
                    \* "abort" (a panic)
    frame_size,     \* Compressor.frame_size
    input,          \* the input of compress
    buf,            \* compress: the output buffer under construction
    total_written,  \* compress: cumulative compressed length (usize)
    i,              \* compress: loop index
    artifact,       \* the buffer compress returned
    bytes,          \* the buffer handed to Decompressor::new
    tampered,       \* blob position changed after compress, or -1
    dec,            \* the Decompressor: header, frame_offsets, zstd_buf
    read_buf,       \* Decompressor.read_buf (contents) and its capacity
    read_cap,
    output,         \* the caller's output vector (contents) and its capacity
    output_cap,
    last            \* the last get_into call and its outcome

vars == << pc, frame_size, input, buf, total_written, i, artifact, bytes, tampered,
           dec, read_buf, read_cap, output, output_cap, last >>

compressor_vars == << frame_size, input, buf, total_written, i, artifact >>
decoder_vars == << dec, read_buf, read_cap, output, output_cap, last >>

RECURSIVE SeqsUpTo(_, _)
SeqsUpTo(S, n) ==
    IF n = 0 THEN {<<>>}
    ELSE LET shorter == SeqsUpTo(S, n - 1)
         IN  shorter \cup {Append(s, e) : s \in {t \in shorter : Len(t) = n - 1}, e \in S}

Inputs == SeqsUpTo(Byte, MaxLen)

NoDec == [frame_size |-> 0, input_len |-> 0, frame_offsets |-> <<>>, zstd_buf |-> <<>>]
NoCall == [called |-> FALSE, start |-> 0, end |-> 0, status |-> "none",
           frames |-> <<>>, reads |-> {}, before |-> <<>>, before_cap |-> 0,
           before_read |-> <<>>, before_read_cap |-> 0, checked |-> TRUE]

\* Compressor::new()
Init ==
    /\ pc = "builder"
    /\ frame_size = DEFAULT_FRAME_SIZE
    /\ input = <<>>
    /\ buf = <<>>
    /\ total_written = 0
    /\ i = 0
    /\ artifact = <<>>
    /\ bytes = <<>>
    /\ tampered = -1
    /\ dec = NoDec
    /\ read_buf = <<>>
    /\ read_cap = 0
    /\ output = <<>>
    /\ output_cap = 0
    /\ last = NoCall

\* Compressor::frame_size(n); the asserts abort on n = 0 and n >= u32::MAX
FrameSize(n) ==
    /\ pc = "builder"
    /\ IF n >= 1 /\ n < U32_MAX
       THEN frame_size' = n /\ pc' = pc
       ELSE frame_size' = frame_size /\ pc' = "abort"
    /\ UNCHANGED << input, buf, total_written, i, artifact, bytes, tampered >>
    /\ UNCHANGED decoder_vars

NumFrames(len, fs) == DivCeil(len, fs)

TableSizeof(num_frames) == (num_frames + 3) * WordSize

\* Compressor::compress up to the loop: the zeroed table with the header set
CompressStart(inp) ==
    /\ pc = "builder"
    /\ IF Len(inp) < U32_MAX
       THEN LET num_frames == NumFrames(Len(inp), frame_size)
                table_sizeof == TableSizeof(num_frames)
            IN  /\ buf' = set_u32(set_u32(Zeros(table_sizeof), 0, AsU32(frame_size)),
                                  1, AsU32(Len(inp)))
                /\ pc' = "compressing"
       ELSE buf' = buf /\ pc' = "abort"
    /\ input' = inp
    /\ total_written' = 0
    /\ i' = 0
    /\ UNCHANGED << frame_size, artifact, bytes, tampered >>
    /\ UNCHANGED decoder_vars

\* the source slice of frame k (0-based)
FrameSource(inp, fs, k) == SubSeq(inp, k * fs + 1, Min((k + 1) * fs, Len(inp)))

\* (a compress that keeps no word for the zero anchor)
OffsetSlotNoAnchor(k) == k + 2

\* the table word that receives the cumulative length after frame k
OffsetSlot(k) == k + 3

\* one iteration of the loop of compress
CompressFrame ==
    /\ pc = "compressing"
    /\ i < NumFrames(Len(input), frame_size)
    /\ LET source == FrameSource(input, frame_size, i)
           written == CodecCompress(source)
       IN  IF Len(written) <= compress_bound(Len(source))
           THEN /\ total_written' = total_written + Len(written)
                /\ buf' = set_u32(buf \o written, OffsetSlot(i), AsU32(total_written + Len(written)))
                /\ i' = i + 1
                /\ pc' = pc
           ELSE /\ pc' = "abort"
                /\ UNCHANGED << total_written, buf, i >>
    /\ UNCHANGED << frame_size, input, artifact, bytes, tampered >>
    /\ UNCHANGED decoder_vars

\* compress returns Ok(buf)
CompressReturn ==
    /\ pc = "compressing"
    /\ i = NumFrames(Len(input), frame_size)
    /\ artifact' = buf
    /\ bytes' = buf
    /\ buf' = <<>>
    /\ pc' = "compressed"
    /\ UNCHANGED << frame_size, input, total_written, i, tampered >>
    /\ UNCHANGED decoder_vars

\* ------------------------------------------------------------ the decoder
\* Decompressor::new(bytes): [outcome ("some", "none", "panic"), dec, overflowed].
\* The buffer is taken to be aligned for u32, as the vector compress returns is.
\* `checked` says whether the build checks arithmetic overflow (a debug build
\* panics on it, a release build wraps).
New(b, checked) ==
    LET header_size == HeaderWords * WordSize
        fail(o, ovf) == [outcome |-> o, dec |-> NoDec, overflowed |-> ovf]
    IN  IF Len(b) < header_size THEN fail("none", FALSE)
        ELSE LET fs == get_u32(b, 0)
                 il == get_u32(b, 1)
             IN  IF fs = 0 THEN fail("panic", FALSE)
                 ELSE LET sum == DivCeil(il, fs) + 1
                          ovf == sum > U32_MAX
                          num_frames == AsU32(sum)
                          rest == SubSeq(b, header_size + 1, Len(b))
                      IN  IF ovf /\ checked THEN fail("panic", TRUE)
                          ELSE IF Len(rest) < num_frames * WordSize THEN fail("none", ovf)
                          ELSE [outcome |-> "some",
                                dec |-> [frame_size |-> fs,
                                         input_len |-> il,
                                         frame_offsets |-> [k \in 1 .. num_frames |-> get_u32(rest, k - 1)],
                                         zstd_buf |-> SubSeq(rest, num_frames * WordSize + 1, Len(rest))],
                                overflowed |-> ovf]

Unbounded == [kind |-> "Unbounded", b |-> 0]
Included(n) == [kind |-> "Included", b |-> n]
Excluded(n) == [kind |-> "Excluded", b |-> n]

\* make_range(range, len)
make_range(sb, eb, len) ==
    [start |-> IF sb.kind = "Unbounded" THEN 0 ELSE sb.b,
     end |-> IF eb.kind = "Included" THEN eb.b + 1
             ELSE IF eb.kind = "Excluded" THEN eb.b
             ELSE len]

\* the loop of read_into over the windows of offsets[first ..= first + nwin],
\* from window j on; s is the state of the call so far
RECURSIVE ReadWindows(_, _, _, _, _, _, _)
ReadWindows(d, range, first, nwin, checked, j, s) ==
    IF j = nwin \/ s.status # "run" THEN s
    ELSE
    LET from == d.frame_offsets[first + j + 1]
        to == d.frame_offsets[first + j + 2]
    IN  IF from > to \/ to > Len(d.zstd_buf)
        THEN [s EXCEPT !.status = "eof"]
        ELSE
        LET source == SubSeq(d.zstd_buf, from + 1, to)
            handed == [s EXCEPT !.frames = Append(@, first + j),
                                !.reads = @ \cup (from .. (to - 1))]
            is_end == j = nwin - 1
        IN  IF j = 0 \/ is_end
            THEN
              LET rcap == Reserve(0, s.read_cap, d.frame_size)
                  got == CodecDecompress(source, rcap)
                  cleared == [handed EXCEPT !.read_buf = <<>>, !.read_cap = rcap]
              IN  IF ~got.ok THEN [cleared EXCEPT !.status = "codec"]
                  ELSE
                  LET filled == [cleared EXCEPT !.read_buf = got.out]
                      start == IF j = 0 THEN range.start % d.frame_size ELSE 0
                      want == range.end - range.start
                      under == Len(s.buf) > want
                      \* on wrap-around the sum exceeds every length: min picks read_buf.len()
                      end == IF under THEN Len(got.out)
                             ELSE Min(start + (want - Len(s.buf)), Len(got.out))
                  IN  IF under /\ checked
                      THEN [filled EXCEPT !.status = "panic", !.overflowed = TRUE]
                      ELSE IF start > end
                      THEN [filled EXCEPT !.status = "panic", !.overflowed = @ \/ under]
                      ELSE ReadWindows(d, range, first, nwin, checked, j + 1,
                             [filled EXCEPT
                                !.buf = @ \o SubSeq(got.out, start + 1, end),
                                !.cap = Reserve(Len(s.buf), s.cap, end - start),
                                !.overflowed = @ \/ under])
            ELSE
              LET got == CodecDecompress(source, s.cap - Len(s.buf))
              IN  IF ~got.ok THEN [handed EXCEPT !.status = "codec"]
                  ELSE ReadWindows(d, range, first, nwin, checked, j + 1,
                                   [handed EXCEPT !.buf = @ \o got.out])

\* (a range check that also turns away the empty range)
InvertedOrEmpty(range) == range.start >= range.end

\* the range check of read_into
Inverted(range) == range.start > range.end

\* the first frame a range touches, and the one past the last
StartFrame(range, fs) == range.start \div fs
EndFrame(range, fs) == DivCeil(range.end, fs)

\* Decompressor::read_into(buf, range) on the decompressor d with scratch buffer
\* rb (capacity rcap) and the caller's vector out (capacity ocap):
\* [status ("ok", "eof", "codec", "panic"), buf, cap, read_buf, read_cap,
\*  frames handed to the codec, blob positions read, overflowed]
read_into(d, out, ocap, rb, rcap, range, checked) ==
    LET untouched == [status |-> "eof", buf |-> out, cap |-> ocap, read_buf |-> rb,
                      read_cap |-> rcap, frames |-> <<>>, reads |-> {},
                      overflowed |-> FALSE]
    IN  IF Inverted(range) THEN untouched
        ELSE
        LET start == StartFrame(range, d.frame_size)
            end == EndFrame(range, d.frame_size)
        IN  IF end + 1 > Len(d.frame_offsets) THEN untouched
            ELSE
            LET want == range.end - range.start
                s0 == [untouched EXCEPT !.status = "run", !.buf = <<>>,
                                        !.cap = Reserve(0, ocap, want)]
                s1 == ReadWindows(d, range, start, end - start, checked, 0, s0)
            IN  IF s1.status = "run" THEN [s1 EXCEPT !.status = "ok"] ELSE s1

\* the environment changes one byte of the compressed blob before the buffer
\* is opened; p is the position in the blob (0-based)
BlobStart(b) == (NumFrames(get_u32(b, 1), get_u32(b, 0)) + 3) * WordSize

Tamper(p, v) ==
    /\ pc = "compressed"
    /\ tampered = -1
    /\ BlobStart(bytes) + p + 1 <= Len(bytes)
    /\ bytes[BlobStart(bytes) + p + 1] # v
    /\ bytes' = [bytes EXCEPT ![BlobStart(bytes) + p + 1] = v]
    /\ tampered' = p
    /\ UNCHANGED pc
    /\ UNCHANGED compressor_vars
    /\ UNCHANGED decoder_vars

\* Decompressor::new(&bytes)
Open ==
    /\ pc = "compressed"
    /\ \E checked \in (IF New(bytes, TRUE).overflowed THEN BOOLEAN ELSE {TRUE}) :
          LET r == New(bytes, checked)
          IN  /\ pc' = IF r.outcome = "some" THEN "open"
                       ELSE IF r.outcome = "none" THEN "none" ELSE "abort"
              /\ dec' = r.dec
              /\ last' = [NoCall EXCEPT !.checked = checked]
    /\ read_buf' = <<>>
    /\ read_cap' = 0
    /\ UNCHANGED << output, output_cap, bytes, tampered >>
    /\ UNCHANGED compressor_vars

\* Decompressor::get_into(&mut output, range)
GetInto(sb, eb) ==
    /\ pc \in {"open", "used"}
    /\ LET range == make_range(sb, eb, dec.input_len)
           r1 == read_into(dec, output, output_cap, read_buf, read_cap, range, TRUE)
       IN  \E checked \in (IF r1.overflowed THEN BOOLEAN ELSE {TRUE}) :
             LET r == IF checked THEN r1
                      ELSE read_into(dec, output, output_cap, read_buf, read_cap, range, FALSE)
             IN  /\ output' = r.buf
                 /\ output_cap' = r.cap
                 /\ read_buf' = r.read_buf
                 /\ read_cap' = r.read_cap
                 /\ pc' = IF r.status = "panic" THEN "abort"
                          ELSE IF pc = "open" THEN "used" ELSE "done"
                 /\ last' = [called |-> TRUE, start |-> range.start, end |-> range.end,
                             status |-> r.status, frames |-> r.frames, reads |-> r.reads,
                             before |-> output, before_cap |-> output_cap,
                             before_read |-> read_buf, before_read_cap |-> read_cap,
                             checked |-> checked]
    /\ UNCHANGED << dec, bytes, tampered >>
    /\ UNCHANGED compressor_vars

\* the ranges the caller asks for: a..b, and the forms .., ..=b and a..
RangeVals == 0 .. (MaxLen + 1)
RangeArgs ==
    {<<Included(a), Excluded(b)>> : a \in RangeVals, b \in RangeVals}
        \cup {<<Unbounded, Unbounded>>, <<Unbounded, Included(0)>>, <<Included(1), Unbounded>>}

Compress ==
    \/ \E n \in 0 .. MaxFrameSize : FrameSize(n)
    \/ \E inp \in Inputs : CompressStart(inp)
    \/ CompressFrame
    \/ CompressReturn

\* compress, open and two get_into calls on the opened instance
Next ==
    \/ Compress
    \/ Open
    \/ \E r \in RangeArgs : GetInto(r[1], r[2])

Spec == Init /\ [][Next]_vars

\* the same with an environment that corrupts a byte of the stored blob, and
\* one get_into call on the opened instance
TamperPositions == 0 .. (MaxLen * (BlockHeaderSize + 1))

NextTamper ==
    \/ Compress
    \/ \E p \in TamperPositions, v \in Byte : Tamper(p, v)
    \/ Open
    \/ \E r \in RangeArgs : pc = "open" /\ GetInto(r[1], r[2])

SpecTamper == Init /\ [][NextTamper]_vars

\* a corrupted blob and two get_into calls of prefixes ..b that reuse the
\* output vector
PrefixRangeArgs == {<<Unbounded, Excluded(b)>> : b \in RangeVals}

NextReuse ==
    \/ Compress
    \/ \E p \in TamperPositions, v \in Byte : Tamper(p, v)
    \/ Open
    \/ \E r \in PrefixRangeArgs : GetInto(r[1], r[2])

SpecReuse == Init /\ [][NextReuse]_vars

\* Decompressor::new on arbitrary buffers: two header words and a zeroed rest,
\* cut at every length
MaxBuffer == (HeaderWords + U32Mod) * WordSize + MaxTail
Buffers ==
    {SubSeq(ToNeBytes(fs) \o ToNeBytes(il) \o Zeros(MaxBuffer - HeaderWords * WordSize), 1, m) :
        fs \in 0 .. U32_MAX, il \in 0 .. U32_MAX, m \in 0 .. MaxBuffer}

InitOpen ==
    /\ pc = "compressed"
    /\ frame_size = DEFAULT_FRAME_SIZE
    /\ input = <<>>
    /\ buf = <<>>
    /\ total_written = 0
    /\ i = 0
    /\ artifact = <<>>
    /\ bytes \in Buffers
    /\ tampered = -1
    /\ dec = NoDec
    /\ read_buf = <<>>
    /\ read_cap = 0
    /\ output = <<>>
    /\ output_cap = 0
    /\ last = NoCall

NextOpen == Open

SpecOpen == InitOpen /\ [][NextOpen]_vars

\* ================================================================ claims
\* reference values the claims compare the program with
RECURSIVE ExactEnd(_, _, _)
ExactEnd(inp, fs, k) ==
    IF k = 0 THEN 0
    ELSE ExactEnd(inp, fs, k - 1) + Len(CodecCompress(FrameSource(inp, fs, k - 1)))

RECURSIVE ExactBlob(_, _, _)
ExactBlob(inp, fs, k) ==
    IF k = 0 THEN <<>>
    ELSE ExactBlob(inp, fs, k - 1) \o CodecCompress(FrameSource(inp, fs, k - 1))

InputFrames == NumFrames(Len(input), frame_size)
Compressed == pc \in {"compressed", "open", "used", "done", "none"} \/ (pc = "abort" /\ last.called)
\* some cumulative compressed length of the input does not fit a u32
Wrapped == ExactEnd(input, frame_size, InputFrames) > U32_MAX
LastRange == [start |-> last.start, end |-> last.end]
LastValid == last.called /\ last.start <= last.end /\ last.end <= Len(input)
Slice(seq, from, to) == SubSeq(seq, from + 1, to)
FramesTouched(range, fs) ==
    [k \in 1 .. (DivCeil(range.end, fs) - (range.start \div fs)) |-> (range.start \div fs) + k - 1]

\* C1: every get_into on the artifact of compress with start <= end <= len(input)
\* succeeds and returns input[start..end]
C1_RoundTrip ==
    (tampered = -1 /\ LastValid)
        => (last.status = "ok" /\ output = Slice(input, last.start, last.end))

\* C1, where no cumulative compressed length exceeds u32::MAX
C1_RoundTripExactOffsets ==
    (tampered = -1 /\ LastValid /\ ~Wrapped)
        => (last.status = "ok" /\ output = Slice(input, last.start, last.end))

\* C2: every get_into with start > end or end > input_len fails with the
\* unexpected-end-of-data error
C2_OutOfBoundsRejected ==
    (tampered = -1 /\ last.called /\ (last.start > last.end \/ last.end > Len(input)))
        => last.status = "eof"

\* C2, for the ranges that end beyond the nominal span of the last frame
C2_BeyondTableRejected ==
    (tampered = -1 /\ last.called
        /\ (last.start > last.end \/ last.end > InputFrames * frame_size))
        => last.status = "eof"

\* C5: for start < end <= input_len the frames handed to the codec are
\* floor(start/frame_size) .. ceil(end/frame_size) - 1, once each, in order
C5_BoundaryPrecision ==
    (tampered = -1 /\ LastValid /\ last.start < last.end)
        => last.frames = FramesTouched(LastRange, frame_size)

\* C5, where no cumulative compressed length exceeds u32::MAX
C5_BoundaryPrecisionExactOffsets ==
    (tampered = -1 /\ LastValid /\ last.start < last.end /\ ~Wrapped)
        => last.frames = FramesTouched(LastRange, frame_size)

\* C6 as claimed: num_frames offset words follow the header, the zero anchor
\* is not stored, the blob starts at byte 8 + 4 * num_frames
C6_LayoutNoAnchor ==
    (Compressed /\ tampered = -1) =>
        /\ get_u32(artifact, 0) = frame_size
        /\ get_u32(artifact, 1) = Len(input)
        /\ \A k \in 1 .. InputFrames :
              get_u32(artifact, 1 + k) = AsU32(ExactEnd(input, frame_size, k))
        /\ Slice(artifact, (2 + InputFrames) * WordSize, Len(artifact))
              = ExactBlob(input, frame_size, InputFrames)

\* C6 amended: num_frames + 1 offset words follow the header, the first being
\* the zero anchor, the others the cumulative lengths as u32; the blob starts
\* at byte 12 + 4 * num_frames
C6_LayoutWithAnchor ==
    (Compressed /\ tampered = -1) =>
        /\ get_u32(artifact, 0) = frame_size
        /\ get_u32(artifact, 1) = Len(input)
        /\ get_u32(artifact, 2) = 0
        /\ \A k \in 1 .. InputFrames :
              get_u32(artifact, 2 + k) = AsU32(ExactEnd(input, frame_size, k))
        /\ Slice(artifact, (3 + InputFrames) * WordSize, Len(artifact))
              = ExactBlob(input, frame_size, InputFrames)

C6_Witness ==
    /\ pc = "compressed" /\ tampered = -1
    /\ Len(input) = 4 /\ frame_size = 2
    /\ InputFrames = 2
    /\ Len(artifact) > (3 + InputFrames) * WordSize
    /\ get_u32(artifact, 4) > get_u32(artifact, 3)

\* C8 as claimed: every range with start = end is rejected
C8_EmptyRejected ==
    (tampered = -1 /\ last.called /\ last.start = last.end)
        => last.status = "eof"

\* C9: after each iteration the table holds the exact cumulative compressed
\* lengths: slot k is the total length of frames 0 .. k-1
C9_OffsetsExact ==
    (pc = "compressing") =>
        /\ \A k \in 0 .. i : get_u32(buf, 2 + k) = ExactEnd(input, frame_size, k)
        /\ \A k \in 1 .. i : get_u32(buf, 2 + k) >= get_u32(buf, 1 + k)
        /\ Len(buf) - TableSizeof(InputFrames) = get_u32(buf, 2 + i)

\* C9 for the cumulative lengths below 2^32
C9_OffsetsExactModulo ==
    (pc = "compressing") =>
        /\ \A k \in 0 .. i : get_u32(buf, 2 + k) = AsU32(ExactEnd(input, frame_size, k))
        /\ AsU32(Len(buf) - TableSizeof(InputFrames)) = get_u32(buf, 2 + i)

\* C8 amended: an empty range start = end <= input_len is not rejected.  On a
\* frame boundary get_into decodes nothing and returns zero bytes; inside a
\* frame it decodes that frame and returns zero bytes, and fails only where
\* the stored offsets of the frame have wrapped
C8_EmptyAccepted ==
    (tampered = -1 /\ LastValid /\ last.start = last.end) =>
        IF last.start % frame_size = 0
        THEN last.status = "ok" /\ output = <<>> /\ last.frames = <<>>
        ELSE \/ /\ last.status = "ok" /\ output = <<>>
                /\ last.frames = <<last.start \div frame_size>>
             \/ Wrapped /\ last.status \in {"eof", "codec"}

C8_Witness ==
    /\ tampered = -1 /\ LastValid /\ last.start = last.end
    /\ last.start % frame_size # 0
    /\ last.status = "ok" /\ output = <<>> /\ last.before # <<>>

\* ------------------------------------------------------- corrupted blobs
\* the frame whose compressed bytes hold blob position p
RECURSIVE FrameAt(_, _, _, _)
FrameAt(inp, fs, p, k) ==
    IF p < ExactEnd(inp, fs, k + 1) THEN k ELSE FrameAt(inp, fs, p, k + 1)

TamperedFrame == FrameAt(input, frame_size, tampered, 0)
InsideEarlierFrames ==
    /\ tampered # -1 /\ last.called
    /\ last.start <= last.end /\ last.end <= TamperedFrame * frame_size
OnOriginal ==
    read_into(New(artifact, TRUE).dec, last.before, last.before_cap,
              last.before_read, last.before_read_cap, LastRange, last.checked)

\* C3: a failing get_into leaves the output vector as it was before the call
C3_NoPartialOutput ==
    (last.called /\ last.status \in {"eof", "codec"} /\ ~Wrapped)
        => output = last.before

\* C3 for the failures found before the output vector is touched
C3_RejectedRangeKeepsOutput ==
    (last.called /\ last.status = "eof"
        /\ (last.start > last.end \/ EndFrame(LastRange, dec.frame_size) >= Len(dec.frame_offsets)))
        => (output = last.before /\ output_cap = last.before_cap)

\* C4: with the compressed bytes of frame k changed, a range inside the
\* frames before k succeeds with the result of the unchanged artifact, and
\* reads only the blob bytes [offsets[start_frame], offsets[end_frame])
C4_FrameIsolation ==
    InsideEarlierFrames =>
        /\ last.status = "ok"
        /\ last.status = OnOriginal.status
        /\ output = OnOriginal.buf
        /\ last.reads \subseteq
              (dec.frame_offsets[StartFrame(LastRange, frame_size) + 1]
                 .. (dec.frame_offsets[EndFrame(LastRange, frame_size) + 1] - 1))
        /\ tampered \notin last.reads

\* C4 without the interval of the table: same outcome as on the unchanged
\* artifact, and no byte of frame k or of a later frame is read
C4_SameOutcome ==
    InsideEarlierFrames =>
        /\ last.status = OnOriginal.status
        /\ output = OnOriginal.buf
        /\ \A q \in last.reads : q < ExactEnd(input, frame_size, TamperedFrame)

\* C4, where no cumulative compressed length exceeds u32::MAX
C4_FrameIsolationExactOffsets ==
    (InsideEarlierFrames /\ ~Wrapped) =>
        /\ last.status = "ok"
        /\ output = Slice(input, last.start, last.end)
        /\ last.reads \subseteq
              (dec.frame_offsets[StartFrame(LastRange, frame_size) + 1]
                 .. (dec.frame_offsets[EndFrame(LastRange, frame_size) + 1] - 1))

\* C10: the outcome of a get_into call is the outcome of the same call on a
\* fresh instance with an empty output vector
OnFresh == read_into(dec, <<>>, 0, <<>>, 0, LastRange, last.checked)

C10_QueryIndependence ==
    last.called =>
        /\ last.status = OnFresh.status
        /\ last.status = "ok" => output = OnFresh.buf

\* C10 on the artifacts as compress returned them
C10_QueryIndependenceUntampered ==
    (last.called /\ tampered = -1) =>
        /\ last.status = OnFresh.status
        /\ last.status = "ok" => output = OnFresh.buf

\* C7: Decompressor::new returns None exactly for a buffer shorter than the
\* header or than header and table, and never aborts
Opened == pc \in {"open", "none", "abort"}
TooShort(b) ==
    \/ Len(b) < HeaderWords * WordSize
    \/ Len(b) < (HeaderWords + DivCeil(get_u32(b, 1), get_u32(b, 0)) + 1) * WordSize

C7_OpenTotal ==
    Opened => (pc # "abort" /\ ((pc = "none") <=> TooShort(bytes)))

\* C7 for the headers with frame_size >= 1 and a table of at most u32::MAX words
C7_OpenTotalSaneHeader ==
    (Opened /\ Len(bytes) >= HeaderWords * WordSize /\ get_u32(bytes, 0) # 0
        /\ DivCeil(get_u32(bytes, 1), get_u32(bytes, 0)) + 1 <= U32_MAX)
        => (pc # "abort" /\ ((pc = "none") <=> TooShort(bytes)))
====
